---- MODULE Spec2Model ----
(***************************************************************************)
(* A model of c4tool's diagram reconciliation: sortDiagram and the sort    *)
(* of ordering.js, removeEmptyElements, prepareYaml and the edit session.  *)
(*                                                                         *)
(* JavaScript strings are sequences of tokens: "a", "b", " ", "_" and "."  *)
(* are single characters, "constructor" and "undefined" stand for those    *)
(* words (no token contains a space, so the first space of a string is the *)
(* first " " token).  A value that may be undefined is a record            *)
(* [def, s]: def = FALSE is undefined.  A collection that may be missing   *)
(* is a record [def, items].                                               *)
(***************************************************************************)
EXTENDS Integers, Sequences, FiniteSets, TLC

VARIABLES
    initial,    \* sortDiagram: the reference document (yaml.load(initialDiagram))
    actual,     \* sortDiagram: the target document, reordered in place
    actual0,    \* history: the target document as loaded
    pc,         \* sortDiagram: the next pass, "done", or "error" (a TypeError was thrown)
    yamlString, \* prepareYaml: the text it is called with
    prepared,   \* prepareYaml: the text it returned
    obj,        \* removeEmptyElements: the tree, pruned in place
    obj0,       \* history: the tree as passed in
    file,       \* editDiagram: the content of the diagram file
    initialDiagram, \* editDiagram: the reference text of the next save
    watchers,   \* editDiagram: the watch callbacks started, in start order
    saved       \* editDiagram: the reference texts the saves used, in order

sortVars == <<initial, actual, actual0, pc>>
yamlVars == <<yamlString, prepared>>
pruneVars == <<obj, obj0>>
editVars == <<file, initialDiagram, watchers, saved>>
vars == <<sortVars, yamlVars, pruneVars, editVars>>

(***************************************************************************)
(* Bounds.                                                                 *)
(***************************************************************************)
MaxLen == 3
\* the longest text prepareYaml is called with
MaxText == 5
\* the most items of the array, and of an array inside it, removeEmptyElements is given
MaxItems == 3
MaxInner == 2
\* the most watch callbacks and saves of an edit session
MaxWatchers == 2
MaxSaves == 2

(***************************************************************************)
(* Values.                                                                 *)
(***************************************************************************)
Undefined == [def |-> FALSE, s |-> <<>>]
Str(s) == [def |-> TRUE, s |-> s]
Missing == [def |-> FALSE, items |-> <<>>]
Coll(items) == [def |-> TRUE, items |-> items]

SeqUpTo(S, n) == UNION {[1..k -> S] : k \in 0..n}

\* item[prop]: undefined when the node has no such property
Get(item, prop) == IF prop \in DOMAIN item THEN item[prop] ELSE Undefined

(***************************************************************************)
(* ordering.js                                                             *)
(***************************************************************************)
\* Array.prototype.join's string of one value: undefined gives ""
JoinStr(v) == IF v.def THEN v.s ELSE <<>>

RECURSIVE Join(_, _)
Join(vals, sep) ==
    IF vals = <<>> THEN <<>>
    ELSE IF Len(vals) = 1 THEN JoinStr(vals[1])
    ELSE JoinStr(vals[1]) \o <<sep>> \o Join(Tail(vals), sep)

\* String.prototype.replace with a string pattern: the first occurrence only
ReplaceFirst(s, from, to) ==
    IF \E i \in 1..Len(s) : s[i] = from
    THEN LET i == CHOOSE j \in 1..Len(s) : s[j] = from /\ \A h \in 1..(j-1) : s[h] # from
         IN  [s EXCEPT ![i] = to]
    ELSE s

sortKey(item, props) ==
    ReplaceFirst(Join([i \in 1..Len(props) |-> Get(item, props[i])], "."), " ", "_")

\* acc[key] = index on a plain object
Put(acc, key, index) ==
    [k \in DOMAIN acc \cup {key} |-> IF k = key THEN index ELSE acc[k]]

\* the reduce of ordering over jp.query's result, from the 1-based position i
RECURSIVE Reduce(_, _, _, _)
Reduce(acc, nodes, i, props) ==
    IF i > Len(nodes) THEN acc
    ELSE Reduce(Put(acc, sortKey(nodes[i], props), i - 1), nodes, i + 1, props)

\* ordering(item, path, props), given the nodes jp.query(item, path) selects
ordering(nodes, props) == Reduce([k \in {} |-> 0], nodes, 1, props)

\* property names every plain object inherits from Object.prototype
ObjectPrototypeKeys == {<<"constructor">>}

\* (key in order): own and inherited properties
In(key, order) == key \in DOMAIN order \/ key \in ObjectPrototypeKeys

\* order[key]: an index, or an inherited member (a function: NaN in a comparison)
Lookup(order, key) ==
    IF key \in DOMAIN order THEN [num |-> TRUE, n |-> order[key]]
    ELSE [num |-> FALSE, n |-> 0]

\* aPos, bPos of orderApply
Position(node, order, props) ==
    LET key == sortKey(node, props)
    IN  IF In(key, order) THEN Lookup(order, key)
        ELSE [num |-> TRUE, n |-> Cardinality(DOMAIN order)]

\* x < y of two positions: false when either is not a number
Less(x, y) == x.num /\ y.num /\ x.n < y.n

orderApply(a, b, order, props) ==
    LET aPos == Position(a, order, props)
        bPos == Position(b, order, props)
    IN  IF Less(aPos, bPos) THEN -1
        ELSE IF Less(bPos, aPos) THEN 1
        ELSE 0

\* an insertion that takes the place of a node it compares equal to
RECURSIVE InsertReplacingTie(_, _, _, _, _)
InsertReplacingTie(sorted, x, j, order, props) ==
    IF j >= 1 /\ orderApply(sorted[j], x, order, props) > 0
    THEN InsertReplacingTie(sorted, x, j - 1, order, props)
    ELSE IF j >= 1 /\ orderApply(sorted[j], x, order, props) = 0
    THEN [sorted EXCEPT ![j] = x]
    ELSE SubSeq(sorted, 1, j) \o <<x>> \o SubSeq(sorted, j + 1, Len(sorted))

\* an insertion that goes in front of the nodes it compares equal to
RECURSIVE InsertBeforeTies(_, _, _, _, _)
InsertBeforeTies(sorted, x, j, order, props) ==
    IF j >= 1 /\ orderApply(sorted[j], x, order, props) >= 0
    THEN InsertBeforeTies(sorted, x, j - 1, order, props)
    ELSE SubSeq(sorted, 1, j) \o <<x>> \o SubSeq(sorted, j + 1, Len(sorted))

\* Array.prototype.sort: insert x into the sorted prefix, after the last
\* element that does not compare greater than x (a stable insertion sort)
RECURSIVE InsertSorted(_, _, _, _, _)
InsertSorted(sorted, x, j, order, props) ==
    IF j >= 1 /\ orderApply(sorted[j], x, order, props) > 0
    THEN InsertSorted(sorted, x, j - 1, order, props)
    ELSE SubSeq(sorted, 1, j) \o <<x>> \o SubSeq(sorted, j + 1, Len(sorted))

RECURSIVE ArraySortFrom(_, _, _, _, _)
ArraySortFrom(sorted, items, i, order, props) ==
    IF i > Len(items) THEN sorted
    ELSE ArraySortFrom(InsertSorted(sorted, items[i], Len(sorted), order, props),
                       items, i + 1, order, props)

ArraySort(items, order, props) == ArraySortFrom(<<>>, items, 1, order, props)

(***************************************************************************)
(* jsonpath queries of sortDiagram                                         *)
(***************************************************************************)
RECURSIVE Concat(_)
Concat(seqs) == IF seqs = <<>> THEN <<>> ELSE Head(seqs) \o Concat(Tail(seqs))

\* $..elements[*] and $..relationships[*]: no match gives the empty list
QueryAll(doc, field) == IF doc[field].def THEN doc[field].items ELSE <<>>

\* `${element.name}`: undefined is written as the word undefined
TemplateStr(v) == IF v.def THEN v.s ELSE <<"undefined">>

\* @.containers: an array, empty or not, is truthy; undefined is not
Truthy(coll) == coll.def

\* @.name == "literal"
NameEq(name, literal) == name.def /\ name.s = literal

\* the filter ?(@.containers && @.name=="literal") over the items of an array
RECURSIVE FilterNamed(_, _)
FilterNamed(elems, literal) ==
    IF elems = <<>> THEN <<>>
    ELSE (IF Truthy(Head(elems).containers) /\ NameEq(Head(elems).name, literal)
          THEN <<Head(elems)>> ELSE <<>>) \o FilterNamed(Tail(elems), literal)

\* $..elements[?(@.containers && @.name=="literal")].containers[*]
QueryContainers(doc, literal) ==
    LET sel == FilterNamed(QueryAll(doc, "elements"), literal)
    IN  Concat([i \in 1..Len(sel) |-> sel[i].containers.items])

ElementProps == <<"name">>
RelationshipProps == <<"source", "destination">>

(***************************************************************************)
(* sortDiagram, one action per call of sort                                *)
(***************************************************************************)
\* sort(actual, '$', 'elements', initial, () => '$..elements[*]', ['name'])
SortElements ==
    /\ pc = "elements"
    /\ IF actual.elements.def
       THEN LET order == ordering(QueryAll(initial, "elements"), ElementProps)
            IN  /\ actual' = [actual EXCEPT !.elements.items = ArraySort(@, order, ElementProps)]
                /\ pc' = "relationships"
       ELSE /\ pc' = "error"      \* undefined.sort: TypeError
            /\ UNCHANGED actual
    /\ UNCHANGED <<initial, actual0, yamlVars, pruneVars, editVars>>

\* sort(actual, '$', 'relationships', initial, () => '$..relationships[*]', ['source', 'destination'])
SortRelationships ==
    /\ pc = "relationships"
    /\ IF actual.relationships.def
       THEN LET order == ordering(QueryAll(initial, "relationships"), RelationshipProps)
            IN  /\ actual' = [actual EXCEPT !.relationships.items = ArraySort(@, order, RelationshipProps)]
                /\ pc' = "containers"
       ELSE /\ pc' = "error"
            /\ UNCHANGED actual
    /\ UNCHANGED <<initial, actual0, yamlVars, pruneVars, editVars>>

\* the element after the containers pass visited it
SortedContainers(e) ==
    IF Truthy(e.containers)
    THEN LET order == ordering(QueryContainers(initial, TemplateStr(e.name)), ElementProps)
         IN  [e EXCEPT !.containers.items = ArraySort(@, order, ElementProps)]
    ELSE e

\* sort(actual, '$..elements[?(@.containers)]', 'containers', initial, ..., ['name'])
SortContainers ==
    /\ pc = "containers"
    /\ actual' = [actual EXCEPT !.elements.items =
                     [i \in 1..Len(@) |-> SortedContainers(@[i])]]
    /\ pc' = "done"
    /\ UNCHANGED <<initial, actual0, yamlVars, pruneVars, editVars>>

(***************************************************************************)
(* Documents sortDiagram is called with.  Three families, one per pass:    *)
(* each draws the collection its pass reorders from every list up to the   *)
(* bound and keeps the other collections small.                            *)
(***************************************************************************)
A == Str(<<"a">>)
B == Str(<<"b">>)
ElementNames == {A, B, Str(<<"constructor">>)}

Element(i, name, containers) == [id |-> i, name |-> name, containers |-> containers]
Container(i, name) == [id |-> i, name |-> name]
Relationship(i, ends) == [id |-> i, source |-> ends[1], destination |-> ends[2]]

\* elements without containers, numbered in list order
Elements(names) == [i \in 1..Len(names) |-> Element(i, names[i], Missing)]

ElementLists == {Elements(ns) : ns \in SeqUpTo(ElementNames, MaxLen)}

ElementRefs ==
    {[elements |-> es, relationships |-> Coll(<<>>)] :
        es \in {Coll(l) : l \in ElementLists} \cup {Missing}}

ElementTargets ==
    {[elements |-> es, relationships |-> rs] :
        es \in {Coll(l) : l \in ElementLists} \cup {Missing},
        rs \in {Coll(<<>>), Missing}}

\* source and destination of the relationships drawn: two of them have the
\* key a_b.a b, one has no destination
RelationshipEnds ==
    { <<Str(<<"a", " ", "b">>), Str(<<"a", " ", "b">>)>>,
      <<Str(<<"a", "_", "b">>), Str(<<"a", " ", "b">>)>>,
      <<A, Undefined>>,
      <<A, B>> }

Relationships(ends) == [i \in 1..Len(ends) |-> Relationship(i, ends[i])]

RelationshipLists == {Relationships(es) : es \in SeqUpTo(RelationshipEnds, MaxLen)}

RelationshipRefs ==
    {[elements |-> Coll(<<>>), relationships |-> rs] :
        rs \in {Coll(l) : l \in RelationshipLists} \cup {Missing}}

RelationshipTargets ==
    {[elements |-> Coll(<<>>), relationships |-> rs] :
        rs \in {Coll(l) : l \in RelationshipLists} \cup {Missing}}

\* elements with containers: lists of at most MaxLen nodes in all, an
\* element and each of its containers counting for one
ContainerNames == {A, B}

ContainerColls(n) ==
    {Missing} \cup
    {Coll([i \in 1..Len(ns) |-> Container(i, ns[i])]) : ns \in SeqUpTo(ContainerNames, n)}

RECURSIVE OwnerLists(_, _)
OwnerLists(names, budget) ==
    {<<>>} \cup
    IF budget = 0 THEN {}
    ELSE UNION { {<<Element(0, n, c)>> \o rest :
                     rest \in OwnerLists(names, budget - 1 - Len(c.items))} :
                 n \in names, c \in ContainerColls(budget - 1) }

Renumber(es) == [i \in 1..Len(es) |-> [es[i] EXCEPT !.id = i]]

ContainerRefs ==
    {[elements |-> Coll(Renumber(es)), relationships |-> Coll(<<>>)] :
        es \in OwnerLists({A, Str(<<"undefined">>)}, MaxLen)}

ContainerTargets ==
    {[elements |-> Coll(Renumber(es)), relationships |-> Coll(<<>>)] :
        es \in OwnerLists({A, Undefined}, MaxLen)}

\* the variables of the operations a specification leaves out stay as here
Idle == [def |-> FALSE, s |-> <<>>]
SortIdle == initial = Idle /\ actual = Idle /\ actual0 = Idle /\ pc = "idle"
YamlIdle == yamlString = Idle /\ prepared = Idle
PruneIdle == obj = Idle /\ obj0 = Idle
EditIdle == file = Idle /\ initialDiagram = Idle /\ watchers = <<>> /\ saved = <<>>

Init ==
    /\ YamlIdle /\ PruneIdle /\ EditIdle
    /\ \/ initial \in ElementRefs /\ actual \in ElementTargets
       \/ initial \in RelationshipRefs /\ actual \in RelationshipTargets
       \/ initial \in ContainerRefs /\ actual \in ContainerTargets
    /\ actual0 = actual
    /\ pc = "elements"

Next == SortElements \/ SortRelationships \/ SortContainers

Spec == Init /\ [][Next]_vars

(***************************************************************************)
(* The reordering passes that have completed in a state: the collection    *)
(* before and after, the reference nodes the pass selected, the key        *)
(* properties.  The elements pass is read before the containers pass       *)
(* rewrites the elements' containers.                                      *)
(***************************************************************************)
Pass(before, after, refs, props) ==
    [before |-> before, after |-> after, refs |-> refs, props |-> props]

ElementsPass ==
    IF pc \in {"relationships", "containers"} \/ (pc = "error" /\ actual0.elements.def)
    THEN {Pass(actual0.elements.items, actual.elements.items,
               QueryAll(initial, "elements"), ElementProps)}
    ELSE {}

RelationshipsPass ==
    IF pc \in {"containers", "done"}
    THEN {Pass(actual0.relationships.items, actual.relationships.items,
               QueryAll(initial, "relationships"), RelationshipProps)}
    ELSE {}

\* the element of the target as loaded that became e
Loaded(e) == actual0.elements.items[e.id]

ContainersPasses ==
    IF pc = "done"
    THEN {Pass(Loaded(e).containers.items, e.containers.items,
               QueryContainers(initial, TemplateStr(e.name)), ElementProps) :
            e \in {x \in {actual.elements.items[i] : i \in 1..Len(actual.elements.items)} :
                      Truthy(x.containers)}}
    ELSE {}

DonePasses == ElementsPass \cup RelationshipsPass \cup ContainersPasses

Range(s) == {s[i] : i \in 1..Len(s)}
Count(s, v) == Cardinality({i \in 1..Len(s) : s[i] = v})
IsPermutation(s, t) ==
    /\ Len(s) = Len(t)
    /\ \A v \in Range(s) \cup Range(t) : Count(s, v) = Count(t, v)

\* the keys of the reference nodes a pass selected, and a key's table
\* position: the index of the last reference node that has it
RefKeys(p) == {sortKey(p.refs[i], p.props) : i \in 1..Len(p.refs)}
LastIndex(p, key) ==
    (CHOOSE i \in 1..Len(p.refs) :
        /\ sortKey(p.refs[i], p.props) = key
        /\ \A j \in (i+1)..Len(p.refs) : sortKey(p.refs[j], p.props) # key) - 1
KeyOf(p, node) == sortKey(node, p.props)
Matched(p, node) == KeyOf(p, node) \in RefKeys(p)
\* where a node of the collection stands after the pass
IndexIn(s, v) == CHOOSE i \in 1..Len(s) : s[i] = v

(***************************************************************************)
(* C1: every completed reordering pass leaves a permutation of the         *)
(* collection it was given: same length, every node as many times.         *)
(***************************************************************************)
PassIsPermutation == \A p \in DonePasses : IsPermutation(p.before, p.after)

\* a pass that moved nodes of a collection of MaxLen nodes
PassReordered ==
    \E p \in DonePasses : p.after # p.before /\ Len(p.before) >= 3

(***************************************************************************)
(* C2: after a pass, two target nodes whose keys are both in the order     *)
(* table at different positions stand in ascending order of position.      *)
(***************************************************************************)
MatchedInTableOrder ==
    \A p \in DonePasses : \A i, j \in 1..Len(p.after) :
        (/\ i < j
         /\ Matched(p, p.after[i]) /\ Matched(p, p.after[j])
         /\ LastIndex(p, KeyOf(p, p.after[i])) # LastIndex(p, KeyOf(p, p.after[j])))
        => LastIndex(p, KeyOf(p, p.after[i])) < LastIndex(p, KeyOf(p, p.after[j]))

(***************************************************************************)
(* C3: after a pass, every node whose key is not in the order table stands *)
(* after every node whose key is in it.                                    *)
(***************************************************************************)
UnmatchedLast ==
    \A p \in DonePasses : \A i, j \in 1..Len(p.after) :
        (~Matched(p, p.after[i]) /\ Matched(p, p.after[j])) => j < i

(***************************************************************************)
(* C4: two target nodes that compare equal (the comparator returns 0; in   *)
(* particular two nodes at the same table position, a key absent from the  *)
(* table standing at the table's size) keep their relative order.          *)
(***************************************************************************)
TablePosition(p, node) ==
    IF Matched(p, node) THEN LastIndex(p, KeyOf(p, node)) ELSE Cardinality(RefKeys(p))

Tie(p, x, y) ==
    \/ orderApply(x, y, ordering(p.refs, p.props), p.props) = 0
    \/ TablePosition(p, x) = TablePosition(p, y)

SelfSortUnchanged == (initial = actual0) => (actual = actual0)

(***************************************************************************)
(* C7: the containers of a target element E come out as the sort of        *)
(* E.containers by the containers of the reference elements named E.name   *)
(* alone: in the order of their positions, unchanged when no reference     *)
(* element has that name, whatever the other reference elements hold.      *)
(***************************************************************************)
SameName(r, e) == r.name.def /\ e.name.def /\ r.name.s = e.name.s

RECURSIVE NamedLike(_, _)
NamedLike(elems, e) ==
    IF elems = <<>> THEN <<>>
    ELSE (IF Head(elems).containers.def /\ SameName(Head(elems), e)
          THEN Head(elems).containers.items ELSE <<>>) \o NamedLike(Tail(elems), e)

ContainersFollowNamesake ==
    pc = "done" =>
        \A i \in 1..Len(actual.elements.items) :
            LET e == actual.elements.items[i]
                before == Loaded(e).containers.items
                refs == NamedLike(QueryAll(initial, "elements"), e)
                p == Pass(before, e.containers.items, refs, ElementProps)
            IN  e.containers.def =>
                  /\ e.containers.items = ArraySort(before, ordering(refs, ElementProps), ElementProps)
                  /\ refs = <<>> => e.containers.items = before
                  /\ \A j, k \in 1..Len(p.after) :
                        (j < k /\ Matched(p, p.after[j]) /\ Matched(p, p.after[k]))
                        => LastIndex(p, KeyOf(p, p.after[j])) <= LastIndex(p, KeyOf(p, p.after[k]))

(***************************************************************************)
(* C8: sortDiagram throws no error, whatever fields are missing.           *)
(***************************************************************************)
NoErrorOnMissingFields == pc # "error"

(***************************************************************************)
(* prepareYaml.  A text is a sequence of characters.                       *)
(***************************************************************************)
Marker == <<"-", "-", "-">>

\* pat stands in s at the 0-based index i
OccursAt(s, pat, i) ==
    i + Len(pat) <= Len(s) /\ SubSeq(s, i + 1, i + Len(pat)) = pat

\* String.prototype.indexOf: the first index, -1 when there is none
indexOf(s, pat) ==
    IF \E i \in 0..Len(s) : OccursAt(s, pat, i)
    THEN CHOOSE i \in 0..Len(s) :
            OccursAt(s, pat, i) /\ \A j \in 0..(i - 1) : ~OccursAt(s, pat, j)
    ELSE -1

\* String.prototype.substring(from)
substring(s, from) == SubSeq(s, from + 1, Len(s))

\* the last occurrence instead of the first
prepareYamlFromLast(text) ==
    IF \E i \in 0..Len(text) : OccursAt(text, Marker, i)
    THEN substring(text, CHOOSE i \in 0..Len(text) :
            OccursAt(text, Marker, i) /\ \A j \in (i + 1)..Len(text) : ~OccursAt(text, Marker, j))
    ELSE Marker \o <<"\n">> \o text

prepareYaml(text) ==
    LET sepLoc == indexOf(text, Marker)
    IN  IF sepLoc >= 0 THEN substring(text, sepLoc) ELSE Marker \o <<"\n">> \o text

TextChars == {"-", "a", "\n"}
Texts == SeqUpTo(TextChars, MaxText)

YamlInit ==
    /\ SortIdle /\ PruneIdle /\ EditIdle
    /\ yamlString \in {Str(t) : t \in Texts}
    /\ prepared = Idle

PrepareYaml ==
    /\ yamlString.def /\ ~prepared.def
    /\ prepared' = Str(prepareYaml(yamlString.s))
    /\ UNCHANGED <<yamlString, sortVars, pruneVars, editVars>>

YamlNext == PrepareYaml

SpecYaml == YamlInit /\ [][YamlNext]_vars

HasMarker(t) == \E i \in 0..Len(t) : OccursAt(t, Marker, i)
\* r is what is left of t once its first n characters are dropped
IsSuffixFrom(r, t, n) ==
    /\ n <= Len(t)
    /\ Len(r) = Len(t) - n
    /\ \A i \in 1..Len(r) : r[i] = t[n + i]
BeginsWithMarker(r) == Len(r) >= 3 /\ \A i \in 1..3 : r[i] = "-"
\* t has the marker, and r is t from the first one on
FromFirstMarker(r, t) ==
    \E n \in 0..Len(t) :
        /\ OccursAt(t, Marker, n)
        /\ \A m \in 0..(n - 1) : ~OccursAt(t, Marker, m)
        /\ IsSuffixFrom(r, t, n)

(***************************************************************************)
(* C9 as stated: a text with the marker comes out from its first marker    *)
(* on, a text without comes out as the marker followed by the text.        *)
(***************************************************************************)
MarkerThenText ==
    prepared.def =>
        /\ HasMarker(yamlString.s) => FromFirstMarker(prepared.s, yamlString.s)
        /\ ~HasMarker(yamlString.s) => prepared.s = Marker \o yamlString.s
        /\ BeginsWithMarker(prepared.s)

(***************************************************************************)
(* C9 as amended: a text without the marker comes out as the marker, a     *)
(* line feed, then the text.                                               *)
(***************************************************************************)
MarkerLineThenText ==
    prepared.def =>
        /\ HasMarker(yamlString.s) => FromFirstMarker(prepared.s, yamlString.s)
        /\ ~HasMarker(yamlString.s) =>
              /\ IsSuffixFrom(yamlString.s, prepared.s, 4)
              /\ prepared.s[4] = "\n"
        /\ BeginsWithMarker(prepared.s)

\* a text without the marker, though with two dashes in a row, was prepared
MarkerPrepended ==
    /\ prepared.def
    /\ ~HasMarker(yamlString.s)
    /\ \E i \in 0..Len(yamlString.s) : OccursAt(yamlString.s, <<"-", "-">>, i)

(***************************************************************************)
(* removeEmptyElements.  A value is a record [k, c]: k is "null", "empty"  *)
(* (the empty string), "str", "num", "bool", "array" or "object", c its    *)
(* children in order, each a record [key, val] (an array's keys are its    *)
(* indexes and are left blank).                                            *)
(***************************************************************************)
Scalar(k) == [k |-> k, c |-> <<>>]
Null == Scalar("null")
Empty == Scalar("empty")
Child(key, val) == [key |-> key, val |-> val]
Array(vals) == [k |-> "array", c |-> [i \in 1..Len(vals) |-> Child("", vals[i])]]
Object(props) == [k |-> "object", c |-> props]

\* obj[k] === null || obj[k] === ''
IsEmptyValue(v) == v.k \in {"null", "empty"}
\* typeof obj[k] == "object", null apart
IsObject(v) == v.k \in {"array", "object"}

\* obj.splice(k, 1), k from 0
Splice(c, k) == SubSeq(c, 1, k) \o SubSeq(c, k + 2, Len(c))

RECURSIVE removeEmptyElements(_)
RECURSIVE ArrayLoop(_, _, _)
RECURSIVE ObjectLoop(_, _)

\* for (var k in obj) on an array whose keys were "0" .. "n-1" when the loop
\* began: a key that is gone when its turn comes is skipped
ArrayLoop(c, k, n) ==
    IF k >= n THEN c
    ELSE IF k >= Len(c) THEN ArrayLoop(c, k + 1, n)
    ELSE LET v == c[k + 1].val
             c1 == IF IsEmptyValue(v) THEN Splice(c, k)
                   ELSE IF IsObject(v) THEN [c EXCEPT ![k + 1].val = removeEmptyElements(v)]
                   ELSE c
             c2 == IF Len(c1) = k THEN removeEmptyElements([k |-> "array", c |-> c1]).c
                   ELSE c1
         IN  ArrayLoop(c2, k + 1, n)

\* for (var k in obj) on a mapping, from its i-th property: delete obj[k]
\* removes the property in turn and leaves the keys still to come
ObjectLoop(c, i) ==
    IF i > Len(c) THEN <<>>
    ELSE LET v == c[i].val
         IN  (IF IsEmptyValue(v) THEN <<>>
              ELSE IF IsObject(v) THEN <<Child(c[i].key, removeEmptyElements(v))>>
              ELSE <<c[i]>>) \o ObjectLoop(c, i + 1)

removeEmptyElements(o) ==
    IF o.k = "array" THEN [o EXCEPT !.c = ArrayLoop(o.c, 0, Len(o.c))]
    ELSE IF o.k = "object" THEN [o EXCEPT !.c = ObjectLoop(o.c, 1)]
    ELSE o

\* the trees drawn: an array of scalars, mappings and arrays, and a mapping
\* of them
Leaves == {Null, Scalar("str")}
InnerValues ==
    Leaves
    \cup {Array(vs) : vs \in SeqUpTo(Leaves, MaxInner)}
    \cup {Object(<<Child("a", v)>>) : v \in Leaves}
Trees ==
    {Array(vs) : vs \in SeqUpTo(InnerValues, MaxItems)}
    \cup {Object(<<Child("a", v), Child("b", w)>>) : v \in InnerValues, w \in InnerValues}
    \cup {Object(<<Child("a", Null), Child("b", Empty), Child("c", Scalar("str")),
                   Child("d", Scalar("num")), Child("e", Scalar("bool"))>>)}

PruneInit ==
    /\ SortIdle /\ YamlIdle /\ EditIdle
    /\ obj0 \in Trees
    /\ obj = Idle

RemoveEmptyElements ==
    /\ obj = Idle /\ obj0 # Idle
    /\ obj' = removeEmptyElements(obj0)
    /\ UNCHANGED <<obj0, sortVars, yamlVars, editVars>>

PruneNext == RemoveEmptyElements

SpecPrune == PruneInit /\ [][PruneNext]_vars

RECURSIVE NoEmptyValue(_)
NoEmptyValue(v) ==
    \A i \in 1..Len(v.c) : ~IsEmptyValue(v.c[i].val) /\ NoEmptyValue(v.c[i].val)

(***************************************************************************)
(* C6: once removeEmptyElements has returned, no property and no item at   *)
(* any depth of the tree is null or the empty string.                      *)
(***************************************************************************)
NoEmptyValueLeft == obj # Idle => NoEmptyValue(obj)

(***************************************************************************)
(* editDiagram: the session once the page is set up.  A watch callback     *)
(* reads the file when it starts, then waits for three calls on the page   *)
(* in turn; whichever pending call settles next resumes its callback (the  *)
(* calls are taken to settle, none to reject).                             *)
(***************************************************************************)
Contents == { <<"a">>, <<"b">>, <<"a", "-", "-", "-", "b">> }

\* var initialDiagram = prepareYaml(fileContent(filename))
EditInit ==
    /\ SortIdle /\ YamlIdle /\ PruneIdle
    /\ file \in {Str(c) : c \in Contents}
    /\ initialDiagram = Str(prepareYaml(file.s))
    /\ watchers = <<>>
    /\ saved = <<>>

\* the diagram file is rewritten from outside the session
WriteFile ==
    /\ \E c \in Contents : file' = Str(c)
    /\ UNCHANGED <<initialDiagram, watchers, saved, sortVars, yamlVars, pruneVars>>

\* the watch callback starts: it reads the file and calls renderDiagramInExpress
WatchStart ==
    /\ Len(watchers) < MaxWatchers
    /\ watchers' = Append(watchers, [at |-> "render", yamlDiagram |-> Str(prepareYaml(file.s))])
    /\ UNCHANGED <<file, initialDiagram, saved, sortVars, yamlVars, pruneVars>>

\* await renderDiagramInExpress settles: the callback calls updateStructurizrExpress
RenderSettled ==
    /\ \E i \in 1..Len(watchers) :
          /\ watchers[i].at = "render"
          /\ watchers' = [watchers EXCEPT ![i].at = "update"]
    /\ UNCHANGED <<file, initialDiagram, saved, sortVars, yamlVars, pruneVars>>

\* await updateStructurizrExpress settles: the callback calls zoomFitContent
UpdateSettled ==
    /\ \E i \in 1..Len(watchers) :
          /\ watchers[i].at = "update"
          /\ watchers' = [watchers EXCEPT ![i].at = "zoom"]
    /\ UNCHANGED <<file, initialDiagram, saved, sortVars, yamlVars, pruneVars>>

\* await zoomFitContent settles: initialDiagram = yamlDiagram, the callback ends
ZoomSettled ==
    /\ \E i \in 1..Len(watchers) :
          /\ watchers[i].at = "zoom"
          /\ watchers' = [watchers EXCEPT ![i].at = "done"]
          /\ initialDiagram' = watchers[i].yamlDiagram
    /\ UNCHANGED <<file, saved, sortVars, yamlVars, pruneVars>>

\* every callback that started has ended, and one did start
Settled == Len(watchers) >= 1 /\ \A i \in 1..Len(watchers) : watchers[i].at = "done"

\* sendDiagram: the diagram sent is sorted against initialDiagram and written
\* to the file.  saved keeps the reference used, and what the callbacks had
\* read when it was used.
SendDiagram ==
    /\ Len(saved) < MaxSaves
    /\ saved' = Append(saved, [reference |-> initialDiagram,
                               settled |-> Settled,
                               lastRead |-> IF watchers = <<>> THEN Idle
                                            ELSE watchers[Len(watchers)].yamlDiagram])
    /\ \E c \in Contents : file' = Str(c)
    /\ UNCHANGED <<initialDiagram, watchers, sortVars, yamlVars, pruneVars>>

EditNext ==
    \/ WriteFile
    \/ WatchStart
    \/ RenderSettled
    \/ UpdateSettled
    \/ ZoomSettled
    \/ SendDiagram

SpecEdit == EditInit /\ [][EditNext]_vars

(***************************************************************************)
(* C10: once every watch callback that started has ended, the reference of *)
(* the next save is the text the callback that started last had read.      *)
(***************************************************************************)
SaveUsesLatestRead ==
    /\ Settled => initialDiagram = watchers[Len(watchers)].yamlDiagram
    /\ \A i \in 1..Len(saved) : saved[i].settled => saved[i].reference = saved[i].lastRead

====
